---- MODULE Spec2Model ----
(***************************************************************************)
(* newton_raphson (src/main.cpp) as a state machine.                       *)
(*                                                                         *)
(* Number representation.  Iterates (initialGuess, currentX, previousX)    *)
(* are doubles with whole-number values and are stored as those integers.  *)
(* The two callables return doubles of the form v * 2^-valExp, stored as   *)
(* the integer v; valExp is a property of the callables and is fixed in    *)
(* Init.  A quotient func(x)/dervi(x) is then the quotient of the two      *)
(* stored integers, and the callables only return pairs for which that     *)
(* quotient is a whole number, so every operation of the loop is exact     *)
(* both in real arithmetic and in IEEE double arithmetic (scaling by a     *)
(* power of two is exact).  tolerance is stored as its floor:              *)
(* |currentX - previousX| is a whole number, so comparing it with          *)
(* tolerance and with the floor of tolerance agree.                        *)
(*                                                                         *)
(* The callables are arbitrary but pure: a value is picked the first time  *)
(* a point is evaluated and is returned again at every later evaluation,   *)
(* in the same call or in a later one (func and dervi are the tables of    *)
(* the values returned so far).  The pairs modelled have a derivative of   *)
(* one sign (slope) and at most one zero of func on the grid (root).       *)
(*                                                                         *)
(* A call is followed for at most RoundsCap rounds, two more than any      *)
(* maxIteration + 1; rounds, updates and evalLog record what it did.       *)
(***************************************************************************)
EXTENDS Integers, Sequences, FiniteSets, TLC

\* ---- bounds of the model ------------------------------------------------
XMax == 3        \* iterates lie in 0..XMax
StepMax == 2     \* a Newton step moves by at most StepMax; so does tolerance
IterMax == 1     \* maxIteration is in 0..IterMax or is SIZE_MAX
SizeBits == 4    \* width of size_t in the model (64 in the build)

Grid == 0..XMax
Steps == (-StepMax)..StepMax
Tolerances == 0..StepMax
SIZE_MAX == 2^SizeBits - 1
MaxIterations == (0..IterMax) \cup {SIZE_MAX}
RoundsCap == SIZE_MAX + 3
DervMags == {0, 2, 4}           \* |dervi(x)|: zero, below 1e-12, above it
FuncVals == {4 * q : q \in Steps}
NoRoot == -1

VARIABLES
    valExp,            \* func and dervi return v * 2^-valExp
    slope,             \* the sign of the values dervi returns: 1 or -1
    root,              \* the only grid point where func is 0, or NoRoot
    func, dervi,       \* the values the callables have returned so far
    initialGuess, tolerance, maxIteration,          \* arguments of the call
    currentIteration, currentX,                     \* locals, lines 25-26
    previousX, functionValue, derivativeValue,      \* locals, lines 30-33
    pc,                \* "idle", "loop" (at line 28) or "done" (returned)
    result,            \* the value returned
    exit,              \* which return statement returned it
    rounds,            \* evaluations of func/dervi pairs in this call
    updates,           \* executions of line 38 in this call
    evalLog,           \* the points evaluated in this call, in order
    prev               \* the call before this one: arguments and outcome

vars == <<valExp, slope, root, func, dervi, initialGuess, tolerance,
          maxIteration, currentIteration, currentX, previousX, functionValue,
          derivativeValue, pc, result, exit, rounds, updates, evalLog,
          prev>>

env == <<valExp, slope, root>>
args == <<initialGuess, tolerance, maxIteration>>
locals == <<currentIteration, currentX, previousX, functionValue,
            derivativeValue>>

\* ---- arithmetic ---------------------------------------------------------
Abs(a) == IF a < 0 THEN -a ELSE a

Sign(a) == IF a < 0 THEN -1 ELSE 1

\* a / b for doubles a, b with b # 0 whose quotient is a whole number
Quot(a, b) == Sign(a) * Sign(b) * (Abs(a) \div Abs(b))

Divides(b, a) == b # 0 /\ Abs(a) % Abs(b) = 0

\* |v * 2^-valExp| < 1e-12, that is |v| * 10^12 < 2^valExp: for valExp < 12
\* only v = 0 satisfies it, otherwise divide both sides by 2^12.
BelowEps(v) ==
    IF valExp >= 12 THEN Abs(v) * 5^12 < 2^(valExp - 12) ELSE v = 0

\* ---- the statements of newton_raphson -----------------------------------
\* the loop condition with the bound excluded
LoopCondition_Exclusive(i, m) == i < m

\* line 28: currentIteration <= maxIteration
LoopCondition(i, m) == i <= m

\* the guard testing for an exact zero only
DerivativeGuard_ExactZero(dv) == dv = 0

\* line 35: std::abs(derivativeValue) < 1e-12
DerivativeGuard(dv) ==
    IF valExp >= 12 THEN Abs(dv) * 5^12 < 2^(valExp - 12) ELSE dv = 0

\* the update with the sign of the correction flipped
NewtonUpdate_Plus(x, fv, dv) == x + Quot(fv, dv)

\* line 38: previousX - functionValue / derivativeValue
NewtonUpdate(x, fv, dv) == x - Quot(fv, dv)

\* the convergence check with a strict comparison
Converged_Strict(cur, prv, tol) == Abs(cur - prv) < tol

\* the convergence check without std::abs
Converged_NoAbs(cur, prv, tol) == cur - prv <= tol

\* the convergence check with the comparison inverted
Converged_Inverted(cur, prv, tol) == Abs(cur - prv) >= tol

\* line 40: std::abs(currentX - previousX) <= tolerance
Converged(cur, prv, tol) == Abs(cur - prv) <= tol

\* line 43: ++currentIteration on a size_t
Increment(i) == (i + 1) % 2^SizeBits

\* ---- the callables ------------------------------------------------------
\* the values dervi may return: of the sign slope
DervVals == {slope * d : d \in DervMags}

\* The pairs <<func(x), dervi(x)>> a pure callable pair may return at x: the
\* recorded one if x was evaluated before; otherwise any pair whose Newton
\* step, when the derivative is not below 1e-12, is a whole number in Steps
\* that lands on the grid, with func zero at root and nowhere else.
Values(x) ==
    IF x \in DOMAIN func
    THEN {<<func[x], dervi[x]>>}
    ELSE {v \in FuncVals \X DervVals :
            /\ (v[1] = 0) <=> (x = root)
            /\ \/ BelowEps(v[2])
               \/ /\ Divides(v[2], v[1])
                  /\ Quot(v[1], v[2]) \in Steps
                  /\ x - Quot(v[1], v[2]) \in Grid}

Record(f, x, v) == [y \in DOMAIN f \cup {x} |-> IF y = x THEN v ELSE f[y]]

NoCall == [guess |-> 0, tol |-> 0, maxIter |-> 0, result |-> 0,
           exit |-> "none", rounds |-> 0, log |-> <<>>]

ThisCall == [guess |-> initialGuess, tol |-> tolerance,
             maxIter |-> maxIteration, result |-> result, exit |-> exit,
             rounds |-> rounds, log |-> evalLog]

Idle ==
    /\ initialGuess = 0 /\ tolerance = 0 /\ maxIteration = 0
    /\ currentIteration = 0 /\ currentX = 0
    /\ previousX = 0 /\ functionValue = 0 /\ derivativeValue = 0
    /\ pc = "idle"
    /\ result = 0
    /\ exit = "none"
    /\ rounds = 0 /\ updates = 0 /\ evalLog = <<>>
    /\ prev = NoCall

\* Any pure pair of callables with values of the form v * 2^-41, a
\* derivative that does not change sign and at most one zero of func on
\* the grid.
Init ==
    /\ valExp = 41
    /\ slope \in {1, -1}
    /\ root \in Grid \cup {NoRoot}
    /\ func = <<>>
    /\ dervi = <<>>
    /\ Idle

\* lines 22-26: entry, currentIteration = 0, currentX = initialGuess
Enter(x0, tol, m) ==
    /\ initialGuess' = x0 /\ tolerance' = tol /\ maxIteration' = m
    /\ currentIteration' = 0
    /\ currentX' = x0
    /\ previousX' = 0 /\ functionValue' = 0 /\ derivativeValue' = 0
    /\ pc' = "loop"
    /\ result' = 0 /\ exit' = "none"
    /\ rounds' = 0 /\ updates' = 0 /\ evalLog' = <<>>
    /\ UNCHANGED <<env, func, dervi>>

\* the first call of newton_raphson, with any arguments
Call(x0, tol, m) ==
    /\ pc = "idle"
    /\ Enter(x0, tol, m)
    /\ UNCHANGED prev

\* a second call with the same callables and maxIteration, starting from
\* the value the first call returned and with its tolerance
CallFromResult ==
    /\ pc = "done" /\ prev = NoCall
    /\ Enter(result, tolerance, maxIteration)
    /\ prev' = ThisCall

\* a second call with the same callables, initialGuess and maxIteration and
\* a smaller tolerance
CallWithTolerance(tol) ==
    /\ pc = "done" /\ prev = NoCall
    /\ tol < tolerance
    /\ Enter(initialGuess, tol, maxIteration)
    /\ prev' = ThisCall

\* lines 28-43, one pass through the loop body
Iterate ==
    /\ pc = "loop"
    /\ rounds < RoundsCap
    /\ LoopCondition(currentIteration, maxIteration)
    /\ \E v \in Values(currentX) :
       LET fv == v[1]
           dv == v[2]
       IN
         /\ previousX' = currentX                                \* line 30
         /\ functionValue' = fv                                  \* line 32
         /\ derivativeValue' = dv                                \* line 33
         /\ func' = Record(func, currentX, fv)
         /\ dervi' = Record(dervi, currentX, dv)
         /\ rounds' = rounds + 1
         /\ evalLog' = Append(evalLog, currentX)
         /\ IF DerivativeGuard(dv)                               \* line 35
            THEN /\ pc' = "done" /\ result' = currentX           \* line 36
                 /\ exit' = "guard"
                 /\ UNCHANGED <<currentX, currentIteration, updates>>
            ELSE /\ currentX' = NewtonUpdate(currentX, fv, dv)   \* line 38
                 /\ updates' = updates + 1
                 /\ IF Converged(currentX', currentX, tolerance) \* line 40
                    THEN /\ pc' = "done" /\ result' = currentX'  \* line 41
                         /\ exit' = "converged"
                         /\ UNCHANGED currentIteration
                    ELSE /\ currentIteration' =
                                Increment(currentIteration)      \* line 43
                         /\ UNCHANGED <<pc, result, exit>>
    /\ UNCHANGED <<env, args, prev>>

\* line 28 with the condition false, then line 46
ReturnLast ==
    /\ pc = "loop"
    /\ ~LoopCondition(currentIteration, maxIteration)
    /\ pc' = "done" /\ result' = currentX /\ exit' = "cap"
    /\ UNCHANGED <<env, func, dervi, args, locals, rounds, updates,
                   evalLog, prev>>

Next ==
    \/ \E x0 \in Grid, tol \in Tolerances, m \in MaxIterations :
          Call(x0, tol, m)
    \/ CallFromResult
    \/ \E tol \in Tolerances : CallWithTolerance(tol)
    \/ Iterate
    \/ ReturnLast

Spec == Init /\ [][Next]_vars

\* The callables of the second concrete scenario: f(x) = x - 5 and
\* fPrime(x) = 1, returned unscaled (valExp = 0), called with any initial
\* guess on the grid, any tolerance and maxIteration 0 or 10.
InitLinear ==
    /\ valExp = 0
    /\ slope = 1
    /\ root = 5
    /\ func = [x \in Grid \cup {5} |-> x - 5]
    /\ dervi = [x \in Grid \cup {5} |-> 1]
    /\ Idle

NextLinear ==
    \/ \E x0 \in Grid, tol \in Tolerances, m \in {0, 10} :
          Call(x0, tol, m)
    \/ CallFromResult
    \/ \E tol \in Tolerances : CallWithTolerance(tol)
    \/ Iterate
    \/ ReturnLast

SpecLinear == InitLinear /\ [][NextLinear]_vars

\* ---- vocabulary of the claims -------------------------------------------
Done == pc = "done"

\* the Newton correction func(x)/dervi(x) at a point that was evaluated
StepAt(x) == Quot(func[x], dervi[x])

\* the derivative returned at an evaluated point is below 1e-12
FlatAt(x) == BelowEps(dervi[x])

\* the point evaluated in round k of the current call
Evaluated(k) == evalLog[k]

\* the current call repeats the previous one from the value it returned
FromResult ==
    /\ prev # NoCall
    /\ initialGuess = prev.result
    /\ tolerance = prev.tol

\* the current call repeats the previous one with a smaller tolerance
SmallerTolerance ==
    /\ prev # NoCall
    /\ initialGuess = prev.guess
    /\ tolerance < prev.tol

\* the iterates of the current call once it has returned: the points it
\* evaluated, then the value it returned
Iterates == Append(evalLog, result)

Dist(x) == Abs(x - root)

\* ---- C1 -----------------------------------------------------------------
\* C1: for every maxIteration of the unsigned type, the largest included, a
\* call makes at most maxIteration + 1 rounds (one evaluation of func and
\* one of dervi each) and then has returned.
C1_RoundsWithinBound == rounds <= maxIteration + 1

\* ---- C2 -----------------------------------------------------------------
\* C2: maxIteration is the maximum number of iterations: a call makes at
\* most maxIteration Newton updates (executions of line 38).
C2_UpdatesWithinMax == updates <= maxIteration

\* ---- C3 -----------------------------------------------------------------
\* C3: in any round, the first or a later one, in which the derivative
\* returned is below 1e-12 in magnitude, the call returns at once the point
\* at which it was evaluated, without making the update of that round; when
\* dervi(initialGuess) is exactly 0 it returns initialGuess in round one.
C3_GuardReturnsIterate ==
    /\ (rounds >= 1 /\ FlatAt(Evaluated(rounds))) =>
          /\ Done /\ exit = "guard"
          /\ result = Evaluated(rounds)
          /\ updates = rounds - 1
    /\ (rounds >= 1 /\ dervi[initialGuess] = 0) =>
          /\ Done /\ rounds = 1 /\ updates = 0
          /\ result = initialGuess
    /\ (Done /\ exit = "guard") => FlatAt(Evaluated(rounds))

C3_Witness ==
    /\ Done /\ exit = "guard"
    /\ rounds >= 2
    /\ derivativeValue # 0
    /\ result # initialGuess

C5_CapReturnsLastUpdate ==
    [][(pc = "loop" /\ rounds = maxIteration + 1) =>
          (pc' = "done" /\ exit' = "cap" /\ result' = currentX
             /\ rounds' = rounds)]_vars

\* ---- C6 -----------------------------------------------------------------
\* C6 as stated: a call from the value r that a call returned, with the same
\* callables, tolerance and maxIteration, returns a value within tolerance
\* of r, whichever exit produced r.
C6_Original ==
    (FromResult /\ Done) => Abs(result - initialGuess) <= tolerance

\* C6 amended: such a call returns a value within tolerance of r when it
\* returns in its first round, that is when the derivative at r is below
\* 1e-12 (it then returns r itself) or the Newton correction at r is at
\* most tolerance in magnitude.
C6_FirstRoundStaysNear ==
    (FromResult /\ Done
       /\ (FlatAt(initialGuess) \/ Abs(StepAt(initialGuess)) <= tolerance)) =>
        /\ rounds = 1
        /\ Abs(result - initialGuess) <= tolerance
        /\ FlatAt(initialGuess) => result = initialGuess

C6_Witness ==
    /\ FromResult /\ Done
    /\ prev.exit = "converged"
    /\ ~FlatAt(initialGuess)
    /\ tolerance > 0
    /\ Abs(StepAt(initialGuess)) = tolerance
    /\ result # initialGuess

\* ---- C7 -----------------------------------------------------------------
\* C7 as stated: with the callables, initialGuess and maxIteration fixed and
\* both calls returning through the convergence check, the value returned
\* with the smaller tolerance is at least as close to the root as the value
\* returned with the larger one.
C7_Original ==
    (SmallerTolerance /\ Done /\ root # NoRoot
       /\ exit = "converged" /\ prev.exit = "converged") =>
        Dist(result) <= Dist(prev.result)

\* the iterates of the current call from the one the previous call returned
\* onwards never move away from the root
C7_NoRetreat ==
    \A k \in (prev.rounds + 1)..rounds :
        Dist(Iterates[k + 1]) <= Dist(Iterates[k])

\* C7 amended: the call with the smaller tolerance makes at least as many
\* rounds as the other, and the value the other returned is one of its
\* iterates; its result is at least as close to the root whenever its
\* iterates from that one onwards do not move away from the root.
C7_LaterIterate ==
    (SmallerTolerance /\ Done) =>
        /\ rounds >= prev.rounds
        /\ prev.rounds >= 1 => Iterates[prev.rounds + 1] = prev.result
        /\ prev.rounds = 0 => (rounds = 0 /\ result = prev.result)
        /\ (root # NoRoot /\ prev.rounds >= 1 /\ C7_NoRetreat) =>
              Dist(result) <= Dist(prev.result)

C7_Witness ==
    /\ SmallerTolerance /\ Done /\ root # NoRoot
    /\ exit = "converged" /\ prev.exit = "converged"
    /\ rounds > prev.rounds
    /\ C7_NoRetreat
    /\ Dist(result) < Dist(prev.result)

\* ---- C8 -----------------------------------------------------------------
\* the second concrete scenario: f(x) = x - 5, fPrime(x) = 1,
\* initialGuess = 0, tolerance = 1e-10 (floor 0), maxIteration = 10
LinearScenario ==
    /\ valExp = 0
    /\ \A x \in Grid \cup {5} : func[x] = x - 5 /\ dervi[x] = 1
    /\ prev = NoCall
    /\ initialGuess = 0 /\ tolerance = 0 /\ maxIteration = 10

\* C8 as stated: the call returns exactly 5 after a single round.
C8_Original ==
    (LinearScenario /\ Done) => (result = 5 /\ rounds = 1)

\* C8 amended: the call returns exactly 5 after two rounds: the update of
\* the first moves 0 to 5, a step above tolerance, and the update of the
\* second leaves 5 where it is, which the convergence check accepts.
C8_FiveAfterTwoRounds ==
    (LinearScenario /\ Done) =>
        /\ result = 5
        /\ rounds = 2 /\ updates = 2
        /\ evalLog = <<0, 5>>
        /\ exit = "converged"

C8_Witness == LinearScenario /\ Done /\ result = 5

====
